---- MODULE Spec2Model ----
(***************************************************************************)
(* The contact manager of src/02.py (src/01.py holds the same classes and  *)
(* a demo): Field/Name/Phone/Birthday values, Record, AddressBook and the  *)
(* command handlers wrapped by input_error.                                *)
(*                                                                         *)
(* Python objects live in `heap` (a Record's identity is its index), the   *)
(* AddressBook's dict is `data`, a sequence of entries in insertion order, *)
(* `held` is the Record the caller's variable refers to (0 for None), and  *)
(* `last` records the last call: its arguments, what it returned or        *)
(* raised, and the state it started from.                                  *)
(*                                                                         *)
(* A str is the sequence of its code points for phone numbers and birthday *)
(* texts (the code looks inside them); a name is an opaque TLA+ string     *)
(* (the code only tests it for emptiness and equality).                    *)
(***************************************************************************)
EXTENDS Integers, Sequences, FiniteSets, TLC

VARIABLES heap, data, held, last

vars == <<heap, data, held, last>>

\* ------------------------------------------------------------------ bounds

\* Longest phone list a Record is grown to in SpecRecord and SpecCli.
MaxPhones == 3

\* Longest phone list a Record is grown to in Spec and SpecBirthdays.
MaxBookPhones == 1

\* ----------------------------------------------------------------- strings

\* "1234567890"
P1 == <<49, 50, 51, 52, 53, 54, 55, 56, 57, 48>>

\* "1112223333"
P2 == <<49, 49, 49, 50, 50, 50, 51, 51, 51, 51>>

\* "123456789": nine digits
P9 == <<49, 50, 51, 52, 53, 54, 55, 56, 57>>

\* "12345678901": eleven digits
P11 == <<49, 50, 51, 52, 53, 54, 55, 56, 57, 48, 49>>

\* "12345abcde": ten characters, five of them letters
PAlpha == <<49, 50, 51, 52, 53, 97, 98, 99, 100, 101>>

\* "123456789" followed by U+00B2 SUPERSCRIPT TWO: ten characters
PSup == <<49, 50, 51, 52, 53, 54, 55, 56, 57, 178>>

\* the empty str
EmptyStr == <<>>

\* "15.11.1990"
B_15_11_1990 == <<49, 53, 46, 49, 49, 46, 49, 57, 57, 48>>

\* "14.11.1990"
B_14_11_1990 == <<49, 52, 46, 49, 49, 46, 49, 57, 57, 48>>

\* "21.11.1990"
B_21_11_1990 == <<50, 49, 46, 49, 49, 46, 49, 57, 57, 48>>

\* "25.11.1990"
B_25_11_1990 == <<50, 53, 46, 49, 49, 46, 49, 57, 57, 48>>

\* "5.1.1990": one-digit day and month
B_5_1_1990 == <<53, 46, 49, 46, 49, 57, 57, 48>>

\* "29.02.2024": a leap day
B_29_02_2024 == <<50, 57, 46, 48, 50, 46, 50, 48, 50, 52>>

\* "31.02.1990": no such calendar date
B_31_02_1990 == <<51, 49, 46, 48, 50, 46, 49, 57, 57, 48>>

\* "1990-11-15": wrong separator and order
B_ISO == <<49, 57, 57, 48, 45, 49, 49, 45, 49, 53>>

\* The code points '0'..'9'.
AsciiDigits == 48..57

\* Code points outside ASCII that are decimal digits (Unicode category Nd):
\* here ARABIC-INDIC DIGIT ZERO..NINE.
OtherDecimals == 1632..1641

\* Code points that str.isdigit() accepts and that are no decimal digits:
\* SUPERSCRIPT TWO, THREE and ONE.
OtherDigits == {178, 179, 185}

\* str.isdigit() of one character.
IsDigitChar(c) == c \in AsciiDigits \cup OtherDecimals \cup OtherDigits

\* str.isdigit(): every character is a digit and there is at least one.
isdigit(s) == Len(s) > 0 /\ \A i \in 1..Len(s) : IsDigitChar(s[i])

\* ------------------------------------------------------------------ fields

\* Name.__init__: an empty value raises.
Name_error(value) == IF value = "" THEN "Name is a required field" ELSE ""

\* Phone.validate_phone: "" when the value passes, else the ValueError's text.
validate_phone(value) ==
    IF ~(isdigit(value) /\ Len(value) = 10)
    THEN "Phone number must be 10 digits"
    ELSE ""

\* ---------------------------------------------------------------- Birthday

\* The regular expression class \d of a str pattern: a decimal digit.
IsDecimal(c) == c \in AsciiDigits \cup OtherDecimals

\* int() of one decimal digit.
DecimalValue(c) == IF c \in AsciiDigits THEN c - 48 ELSE c - 1632

\* int() of a str of decimal digits, a leading space skipped.
RECURSIVE IntValue(_)
IntValue(p) ==
    IF Len(p) = 0 THEN 0
    ELSE IF p[1] = 32 THEN IntValue(Tail(p))
    ELSE 10 * IntValue(SubSeq(p, 1, Len(p) - 1)) + DecimalValue(p[Len(p)])

\* strptime's %d: 3[0-1] | [1-2]\d | 0[1-9] | [1-9] | " "[1-9]
DayMatch(p) ==
    \/ /\ Len(p) = 2
       /\ \/ p[1] = 51 /\ p[2] \in {48, 49}
          \/ p[1] \in {49, 50} /\ IsDecimal(p[2])
          \/ p[1] = 48 /\ p[2] \in 49..57
          \/ p[1] = 32 /\ p[2] \in 49..57
    \/ Len(p) = 1 /\ p[1] \in 49..57

\* strptime's %m: 1[0-2] | 0[1-9] | [1-9]
MonthMatch(p) ==
    \/ /\ Len(p) = 2
       /\ \/ p[1] = 49 /\ p[2] \in 48..50
          \/ p[1] = 48 /\ p[2] \in 49..57
    \/ Len(p) = 1 /\ p[1] \in 49..57

\* strptime's %Y: \d\d\d\d
YearMatch(p) == Len(p) = 4 /\ \A i \in 1..4 : IsDecimal(p[i])

\* The positions of '.' in a str.
Dots(s) == {i \in 1..Len(s) : s[i] = 46}

\* The smallest and the largest element of a non-empty set of numbers.
MinOf(S) == CHOOSE x \in S : \A y \in S : x <= y
MaxOf(S) == CHOOSE x \in S : \A y \in S : y <= x

\* calendar.isleap
IsLeap(y) == (y % 4 = 0) /\ ((y % 100 # 0) \/ (y % 400 = 0))

\* The number of days of month m of year y.
DaysInMonth(y, m) ==
    IF m = 2 THEN (IF IsLeap(y) THEN 29 ELSE 28)
    ELSE IF m \in {4, 6, 9, 11} THEN 30
    ELSE 31

\* datetime(y, m, d) can be constructed (MINYEAR is 1).
ValidDate(y, m, d) ==
    /\ y >= 1
    /\ m \in 1..12
    /\ d >= 1
    /\ d <= DaysInMonth(y, m)

\* A datetime: a calendar date and the time of day, in seconds after
\* midnight.
DateTime(y, m, d, t) == [year |-> y, month |-> m, day |-> d, tod |-> t]

\* Birthday.validate_birthday: datetime.strptime(value, "%d.%m.%Y"); any
\* ValueError is raised again with the class's own text.  The pattern is
\* day "." month "." year with nothing before or after, the date must exist,
\* and the result is that date at midnight.
validate_birthday(value) ==
    LET bad == [exc |-> "Invalid date format. Use DD.MM.YYYY", value |-> <<>>]
    IN  IF Cardinality(Dots(value)) # 2 THEN bad
        ELSE
          LET i1 == MinOf(Dots(value))
              i2 == MaxOf(Dots(value))
              dp == SubSeq(value, 1, i1 - 1)
              mp == SubSeq(value, i1 + 1, i2 - 1)
              yp == SubSeq(value, i2 + 1, Len(value))
          IN  IF ~(DayMatch(dp) /\ MonthMatch(mp) /\ YearMatch(yp)) THEN bad
              ELSE IF ~ValidDate(IntValue(yp), IntValue(mp), IntValue(dp)) THEN bad
              ELSE [exc |-> "",
                    value |-> <<DateTime(IntValue(yp), IntValue(mp), IntValue(dp), 0)>>]

\* ------------------------------------------------------------------ Record

\* Record.__init__ after Name(name) passed: no phones, birthday None (the
\* empty sequence; a Birthday is a one-element sequence holding its value).
NewRecord(name) == [name |-> name, phones |-> <<>>, birthday |-> <<>>]

\* A slot of the heap that holds no object: Name never lets a Record have
\* the empty name, so the empty name marks it.
FreeSlot == NewRecord("")

\* Where a newly constructed Record goes: the lowest free slot, else a new one.
Alloc(h) ==
    IF \E i \in 1..Len(h) : h[i] = FreeSlot
    THEN MinOf({i \in 1..Len(h) : h[i] = FreeSlot})
    ELSE Len(h) + 1

Store(h, i, rec) == IF i <= Len(h) THEN [h EXCEPT ![i] = rec] ELSE Append(h, rec)

\* Free slots at the end of the heap are dropped.
RECURSIVE Trim(_)
Trim(h) ==
    IF Len(h) > 0 /\ h[Len(h)] = FreeSlot THEN Trim(SubSeq(h, 1, Len(h) - 1)) ELSE h

\* Reference counting: a Record that neither the dict `d` nor the caller's
\* variable `hd` refers to is gone.
Collect(h, d, hd) ==
    Trim([i \in 1..Len(h) |->
            IF i = hd \/ (\E j \in 1..Len(d) : d[j].rec = i) THEN h[i] ELSE FreeSlot])

\* The position a `for phone in self.phones: if phone.value == v` loop stops
\* at: the lowest index holding v, 0 when the loop runs out.
FirstIndex(phones, v) ==
    IF \E i \in 1..Len(phones) : phones[i] = v
    THEN MinOf({i \in 1..Len(phones) : phones[i] = v})
    ELSE 0

\* The list without position i.
RemoveAt(phones, i) == SubSeq(phones, 1, i - 1) \o SubSeq(phones, i + 1, Len(phones))

\* What a call on the Record at `r` does to heap `h`: the heap afterwards,
\* the text of the ValueError raised ("" when none), and what it returned.

\* Record.add_phone: Phone(phone_number) validates, then the list grows.
add_phone(h, r, phone_number) ==
    IF validate_phone(phone_number) # ""
    THEN [heap |-> h, exc |-> validate_phone(phone_number), ret |-> "None"]
    ELSE [heap |-> [h EXCEPT ![r].phones = Append(@, phone_number)],
          exc |-> "", ret |-> "None"]

\* remove_phone with the last matching Phone taken out instead of the first.
remove_phone_last(h, r, phone_number) ==
    LET hits == {i \in 1..Len(h[r].phones) : h[r].phones[i] = phone_number}
    IN  IF hits # {}
        THEN [heap |-> [h EXCEPT ![r].phones = RemoveAt(@, MaxOf(hits))],
              exc |-> "", ret |-> TRUE]
        ELSE [heap |-> h, exc |-> "", ret |-> FALSE]

\* Record.remove_phone: list.remove(phone) takes out the first element that
\* is, or equals, the Phone the loop stopped at; Phone defines no __eq__ and
\* every element is a Phone of its own, so that is the loop's position.
remove_phone(h, r, phone_number) ==
    LET i == FirstIndex(h[r].phones, phone_number)
    IN  IF i # 0
        THEN [heap |-> [h EXCEPT ![r].phones = RemoveAt(@, i)],
              exc |-> "", ret |-> TRUE]
        ELSE [heap |-> h, exc |-> "", ret |-> FALSE]

\* edit_phone without the `return True` inside the loop's body: every
\* matching Phone is rewritten.
edit_phone_all(h, r, old_number, new_number) ==
    [heap |-> [h EXCEPT ![r].phones =
                  [i \in 1..Len(@) |-> IF @[i] = old_number THEN new_number ELSE @[i]]],
     exc |-> "",
     ret |-> \E i \in 1..Len(h[r].phones) : h[r].phones[i] = old_number]

\* Record.edit_phone: the first Phone whose value is old_number gets
\* new_number as its value; new_number is assigned as it is.
edit_phone(h, r, old_number, new_number) ==
    LET i == FirstIndex(h[r].phones, old_number)
    IN  IF i # 0
        THEN [heap |-> [h EXCEPT ![r].phones[i] = new_number],
              exc |-> "", ret |-> TRUE]
        ELSE [heap |-> h, exc |-> "", ret |-> FALSE]

\* Record.find_phone: the first Phone with that value (its position in the
\* list and its value), or None (position 0).
find_phone(h, r, phone_number) ==
    LET i == FirstIndex(h[r].phones, phone_number)
    IN  [heap |-> h, exc |-> "",
         ret |-> IF i # 0 THEN [index |-> i, value |-> <<h[r].phones[i]>>]
                 ELSE [index |-> 0, value |-> <<>>]]

\* Record.add_birthday: Birthday(birthday) validates, then replaces the field.
add_birthday(h, r, birthday) ==
    LET b == validate_birthday(birthday)
    IN  IF b.exc # ""
        THEN [heap |-> h, exc |-> b.exc, ret |-> "None"]
        ELSE [heap |-> [h EXCEPT ![r].birthday = b.value], exc |-> "", ret |-> "None"]

\* ------------------------------------------------------------- AddressBook

\* The position of key `name` in the dict, 0 when it is no key.
KeyIndex(d, name) ==
    IF \E i \in 1..Len(d) : d[i].key = name
    THEN MinOf({i \in 1..Len(d) : d[i].key = name})
    ELSE 0

\* add_record on a list of entries rather than a dict: always appended.
add_record_append(d, h, r) == Append(d, [key |-> h[r].name, rec |-> r])

\* add_record as self.data.setdefault(record.name.value, record): an entry
\* the dict holds is kept.
add_record_keep(d, h, r) ==
    IF KeyIndex(d, h[r].name) # 0 THEN d
    ELSE Append(d, [key |-> h[r].name, rec |-> r])

\* AddressBook.add_record: self.data[record.name.value] = record.  Assigning
\* to a key the dict holds keeps the key's position and replaces its value;
\* a new key goes to the end.
add_record(d, h, r) ==
    LET k == h[r].name
        i == KeyIndex(d, k)
    IN  IF i # 0 THEN [d EXCEPT ![i] = [key |-> k, rec |-> r]]
        ELSE Append(d, [key |-> k, rec |-> r])

\* AddressBook.find: self.data.get(name): the Record (its index in the heap),
\* or None (0).
find(d, name) == IF KeyIndex(d, name) # 0 THEN d[KeyIndex(d, name)].rec ELSE 0

\* delete taking out the dict's oldest entry when the name is a key.
delete_first(d, name) ==
    IF KeyIndex(d, name) # 0
    THEN [data |-> Tail(d), ret |-> TRUE]
    ELSE [data |-> d, ret |-> FALSE]

\* AddressBook.delete: the dict afterwards and the value returned.
delete(d, name) ==
    LET i == KeyIndex(d, name)
    IN  IF i # 0
        THEN [data |-> SubSeq(d, 1, i - 1) \o SubSeq(d, i + 1, Len(d)), ret |-> TRUE]
        ELSE [data |-> d, ret |-> FALSE]

\* date.toordinal(): the days from 0001-01-01, that day being 1.
RECURSIVE DaysBeforeMonth(_, _)
DaysBeforeMonth(y, m) ==
    IF m = 1 THEN 0 ELSE DaysBeforeMonth(y, m - 1) + DaysInMonth(y, m - 1)

Ordinal(y, m, d) ==
    365 * (y - 1) + ((y - 1) \div 4) - ((y - 1) \div 100) + ((y - 1) \div 400)
      + DaysBeforeMonth(y, m) + d

\* A datetime as a point in time: its day number and its time of day.
Stamp(dt) == <<Ordinal(dt.year, dt.month, dt.day), dt.tod>>

\* dt + timedelta(days=n): n days later at the same time of day.
PlusDays(s, n) == <<s[1] + n, s[2]>>

\* datetime's order: by date, then by time of day.
StampLess(a, b) == a[1] < b[1] \/ (a[1] = b[1] /\ a[2] < b[2])

StampLessEq(a, b) == a = b \/ StampLess(a, b)

\* The loop of get_upcoming_birthdays over entries i..Len(d): the names
\* appended, in the dict's order.  `today` is datetime.now();
\* birthday.value.replace(year=today.year) is the birthday's month and day
\* in today's year, at the birthday's time of day (midnight).
RECURSIVE UpcomingFrom(_, _, _, _)
UpcomingFrom(d, h, today, i) ==
    IF i > Len(d) THEN <<>>
    ELSE
      LET record == h[d[i].rec]
          rest == UpcomingFrom(d, h, today, i + 1)
          next_week == PlusDays(Stamp(today), 7)
      IN  IF record.birthday = <<>> THEN rest
          ELSE
            LET b == record.birthday[1]
                birthday_this_year == Stamp(DateTime(today.year, b.month, b.day, b.tod))
            IN  IF /\ StampLessEq(Stamp(today), birthday_this_year)
                   /\ StampLess(birthday_this_year, next_week)
                THEN <<record.name>> \o rest
                ELSE rest

\* AddressBook.get_upcoming_birthdays.  datetime.replace raises ValueError
\* when the birthday's month and day do not exist in today's year (29
\* February in a common year); nothing catches it and the list is lost.
get_upcoming_birthdays(d, h, today) ==
    IF \E i \in 1..Len(d) :
          /\ h[d[i].rec].birthday # <<>>
          /\ ~ValidDate(today.year, h[d[i].rec].birthday[1].month,
                        h[d[i].rec].birthday[1].day)
    THEN [exc |-> "day is out of range for month", ret |-> <<>>]
    ELSE [exc |-> "", ret |-> UpcomingFrom(d, h, today, 1)]

\* --------------------------------------------------------- command handlers

\* A handler's outcome: the heap and the dict afterwards and the text the
\* input_error wrapper returns (the handler's message, or str(e) of the
\* ValueError it raised).
Outcome(h, d, msg) == [heap |-> h, data |-> d, ret |-> msg]

\* A text without placeholders, as a message: the sequence of its parts.
Msg(s) == <<s>>

\* `name, phone, *_ = args` and its like: too few values raise ValueError.
UnpackError(n, args) == <<"not enough values to unpack (expected at least ", n, ", got ", Len(args), ")">>

\* add_contact, under input_error.
add_contact(h, d, args) ==
    IF Len(args) < 2 THEN Outcome(h, d, UnpackError(2, args))
    ELSE
      LET name == args[1]
          phone == args[2]
          found == find(d, name)
      IN  IF found = 0 /\ Name_error(name) # "" THEN Outcome(h, d, Msg(Name_error(name)))
          ELSE
            LET record == IF found = 0 THEN Alloc(h) ELSE found
                h1 == IF found = 0 THEN Store(h, record, NewRecord(name)) ELSE h
                d1 == IF found = 0 THEN add_record(d, h1, record) ELSE d
                message == IF found = 0 THEN "Contact added." ELSE "Contact updated."
            IN  IF phone = EmptyStr THEN Outcome(h1, d1, Msg(message))
                ELSE
                  LET res == add_phone(h1, record, phone)
                  IN  IF res.exc # "" THEN Outcome(res.heap, d1, Msg(res.exc))
                      ELSE Outcome(res.heap, d1, Msg(message))

\* change_contact, under input_error.
change_contact(h, d, args) ==
    IF Len(args) < 3 THEN Outcome(h, d, UnpackError(3, args))
    ELSE
      LET record == find(d, args[1])
      IN  IF record = 0
          THEN Outcome(h, d, Msg("Contact not found or phone number not found."))
          ELSE
            LET res == edit_phone(h, record, args[2], args[3])
            IN  IF res.exc # "" THEN Outcome(res.heap, d, Msg(res.exc))
                ELSE IF res.ret THEN Outcome(res.heap, d, Msg("Phone number updated."))
                ELSE Outcome(res.heap, d, Msg("Contact not found or phone number not found."))

\* add_birthday (the command), under input_error.
cmd_add_birthday(h, d, args) ==
    IF Len(args) < 2 THEN Outcome(h, d, UnpackError(2, args))
    ELSE
      LET record == find(d, args[1])
      IN  IF record = 0 THEN Outcome(h, d, Msg("Contact not found."))
          ELSE
            LET res == add_birthday(h, record, args[2])
            IN  IF res.exc # "" THEN Outcome(res.heap, d, Msg(res.exc))
                ELSE Outcome(res.heap, d, <<"Birthday added for ", args[1], ".">>)

\* ------------------------------------------------------------------- calls

\* The record of a call: the operation, the Record it was called on (0 for
\* a call on the book or a handler), its arguments, the ValueError it raised
\* ("" when none), what it returned, and the heap and dict it started from.
Call(op, rec, args, exc, ret) ==
    [op |-> op, rec |-> rec, args |-> args, exc |-> exc, ret |-> ret,
     pre_heap |-> heap, pre_data |-> data]

NoCall ==
    [op |-> "init", rec |-> 0, args |-> <<>>, exc |-> "", ret |-> "None",
     pre_heap |-> <<>>, pre_data |-> <<>>]

\* record = Record(name): Name(name) raises on an empty name and the
\* variable keeps its value, else it refers to the new object (constructed
\* while the variable still refers to the old one).
Do_Record(name) ==
    /\ IF Name_error(name) # ""
       THEN /\ UNCHANGED <<heap, held>>
            /\ last' = Call("Record", 0, <<name>>, Name_error(name), 0)
       ELSE /\ held' = Alloc(heap)
            /\ heap' = Collect(Store(heap, Alloc(heap), NewRecord(name)), data, held')
            /\ last' = Call("Record", 0, <<name>>, "", Alloc(heap))
    /\ UNCHANGED data

\* record.add_phone(s)
Do_add_phone(s) ==
    /\ held # 0
    /\ LET res == add_phone(heap, held, s)
       IN  /\ heap' = res.heap
           /\ last' = Call("add_phone", held, <<s>>, res.exc, res.ret)
    /\ UNCHANGED <<data, held>>

\* record.remove_phone(s)
Do_remove_phone(s) ==
    /\ held # 0
    /\ LET res == remove_phone(heap, held, s)
       IN  /\ heap' = res.heap
           /\ last' = Call("remove_phone", held, <<s>>, res.exc, res.ret)
    /\ UNCHANGED <<data, held>>

\* record.edit_phone(old, new)
Do_edit_phone(old, new) ==
    /\ held # 0
    /\ LET res == edit_phone(heap, held, old, new)
       IN  /\ heap' = res.heap
           /\ last' = Call("edit_phone", held, <<old, new>>, res.exc, res.ret)
    /\ UNCHANGED <<data, held>>

\* record.find_phone(s)
Do_find_phone(s) ==
    /\ held # 0
    /\ LET res == find_phone(heap, held, s)
       IN  /\ heap' = res.heap
           /\ last' = Call("find_phone", held, <<s>>, res.exc, res.ret)
    /\ UNCHANGED <<data, held>>

\* record.add_birthday(text)
Do_add_birthday(text) ==
    /\ held # 0
    /\ LET res == add_birthday(heap, held, text)
       IN  /\ heap' = res.heap
           /\ last' = Call("add_birthday", held, <<text>>, res.exc, res.ret)
    /\ UNCHANGED <<data, held>>

\* book.add_record(record)
Do_add_record ==
    /\ held # 0
    /\ data' = add_record(data, heap, held)
    /\ heap' = Collect(heap, data', held)
    /\ last' = Call("add_record", held, <<>>, "", "None")
    /\ UNCHANGED held

\* record = book.find(name)
Do_find(name) ==
    /\ held' = find(data, name)
    /\ heap' = Collect(heap, data, held')
    /\ last' = Call("find", 0, <<name>>, "", find(data, name))
    /\ UNCHANGED data

\* book.delete(name)
Do_delete(name) ==
    /\ data' = delete(data, name).data
    /\ heap' = Collect(heap, data', held)
    /\ last' = Call("delete", 0, <<name>>, "", delete(data, name).ret)
    /\ UNCHANGED held

\* book.get_upcoming_birthdays(), datetime.now() being `today`
Do_get_upcoming_birthdays(today) ==
    /\ LET res == get_upcoming_birthdays(data, heap, today)
       IN  last' = Call("get_upcoming_birthdays", 0, <<today>>, res.exc, res.ret)
    /\ UNCHANGED <<heap, data, held>>

\* The command `add`
Do_add_contact(args) ==
    /\ LET out == add_contact(heap, data, args)
       IN  /\ heap' = out.heap
           /\ data' = out.data
           /\ last' = Call("add_contact", 0, args, "", out.ret)
    /\ UNCHANGED held

\* The command `change`
Do_change_contact(args) ==
    /\ LET out == change_contact(heap, data, args)
       IN  /\ heap' = out.heap
           /\ data' = out.data
           /\ last' = Call("change_contact", 0, args, "", out.ret)
    /\ UNCHANGED held

\* The command `add-birthday`
Do_cmd_add_birthday(args) ==
    /\ LET out == cmd_add_birthday(heap, data, args)
       IN  /\ heap' = out.heap
           /\ data' = out.data
           /\ last' = Call("cmd_add_birthday", 0, args, "", out.ret)
    /\ UNCHANGED held

\* No phone list has grown past `max` in this step.
Within(max) == \A r \in 1..Len(heap') : Len(heap'[r].phones) <= max

\* ------------------------------------------------- one Record (SpecRecord)

\* The phone numbers and birthday texts a Record is called with.
AddPhones == {P1, P2, P9, P11, PAlpha, PSup, EmptyStr}

OldPhones == {P1, P2, P9, PSup}

NewPhones == {P1, P2, P9}

RecordBirthdays == {B_15_11_1990, B_5_1_1990, B_31_02_1990, B_ISO}

\* After john_record = Record("John").
InitRecord ==
    /\ heap = <<NewRecord("John")>>
    /\ data = <<>>
    /\ held = 1
    /\ last = NoCall

NextRecord ==
    \/ \E s \in AddPhones : Do_add_phone(s) /\ Within(MaxPhones)
    \/ \E s \in OldPhones : Do_remove_phone(s)
    \/ \E old \in OldPhones, new \in NewPhones : Do_edit_phone(old, new)
    \/ \E s \in OldPhones : Do_find_phone(s)
    \/ \E text \in RecordBirthdays : Do_add_birthday(text)

SpecRecord == InitRecord /\ [][NextRecord]_vars

\* ------------------------------------------------------- the book (Spec)

\* The names, phone numbers and birthday texts the book's operations and the
\* commands are called with.  parse_input splits the line at whitespace, so
\* a command's arguments are never empty.
BookNames == {"John", "john"}

BookPhones == {P1, P9}

AddArgs == {<<n, s>> : n \in BookNames, s \in BookPhones}

\* `change` rewrites a number as itself: the book's states keep to one phone
\* number (what edit_phone does to the list is the subject of SpecRecord
\* and SpecCli).
ChangeArgs == {<<n, P1, P1>> : n \in BookNames}

BirthdayArgs == {<<"John", B_15_11_1990>>}

\* After book = AddressBook().
Init ==
    /\ heap = <<>>
    /\ data = <<>>
    /\ held = 0
    /\ last = NoCall

Next ==
    \/ \E name \in BookNames \cup {""} : Do_Record(name)
    \/ \E s \in BookPhones : Do_add_phone(s) /\ Within(MaxBookPhones)
    \/ Do_add_record
    \/ \E name \in BookNames : Do_find(name)
    \/ \E name \in BookNames : Do_delete(name)
    \/ \E args \in AddArgs : Do_add_contact(args) /\ Within(MaxBookPhones)
    \/ \E args \in ChangeArgs : Do_change_contact(args)
    \/ \E args \in BirthdayArgs : Do_cmd_add_birthday(args)

Spec == Init /\ [][Next]_vars

\* ------------------------------------------------- the commands (SpecCli)

CliAddArgs ==
    {<<n, s>> : n \in BookNames, s \in {P1, P9}} \cup {<<n>> : n \in BookNames}

CliChangeArgs ==
    {<<n, P1, P2>> : n \in BookNames} \cup {<<n, P1>> : n \in BookNames}

NextCli ==
    \/ \E args \in CliAddArgs : Do_add_contact(args) /\ Within(MaxPhones)
    \/ \E args \in CliChangeArgs : Do_change_contact(args)
    \/ \E name \in BookNames : Do_delete(name)

SpecCli == Init /\ [][NextCli]_vars

\* ------------------------------------------- the birthdays (SpecBirthdays)

BirthdayNames == {"John", "Jane"}

BirthdayTexts == {B_14_11_1990, B_15_11_1990, B_21_11_1990, B_25_11_1990, B_29_02_2024}

\* The values datetime.now() takes: midnight and noon of 14 November 2024,
\* and noon of 25 February 2025, a common year.
Clock == {DateTime(2024, 11, 14, 0), DateTime(2024, 11, 14, 43200), DateTime(2025, 2, 25, 43200)}

NextBirthdays ==
    \/ \E n \in BirthdayNames : Do_add_contact(<<n, P1>>) /\ Within(MaxBookPhones)
    \/ \E n \in BirthdayNames, b \in BirthdayTexts \cup {B_ISO} : Do_cmd_add_birthday(<<n, b>>)
    \/ \E n \in BirthdayNames : Do_cmd_add_birthday(<<n>>)
    \/ \E today \in Clock : Do_get_upcoming_birthdays(today)

SpecBirthdays == Init /\ [][NextBirthdays]_vars

\* ------------------------------------------------------------- properties

\* Exactly 10 ASCII decimal digits.
TenAsciiDigits(s) == Len(s) = 10 /\ \A i \in 1..Len(s) : s[i] \in AsciiDigits

\* The keys of a dict.
Keys(d) == {d[i].key : i \in 1..Len(d)}

\* The positions of value v in a list.
Occurrences(list, v) == {i \in 1..Len(list) : list[i] = v}

\* The phone list of the Record the last call was made on, before and after.
PrePhones == last.pre_heap[last.rec].phones
PostPhones == heap[last.rec].phones

\* C1: every phone a Record stores is a string of exactly 10 decimal digits,
\* whatever calls were made on the Record.
C1_StoredPhonesAreTenDigits ==
    \A r \in 1..Len(heap) : \A i \in 1..Len(heap[r].phones) :
        TenAsciiDigits(heap[r].phones[i])

\* C2: edit_phone(old, new) with a `new` that is not exactly 10 digits raises
\* ValueError and leaves the phone list as it was.
C2_EditRejectsInvalidNew ==
    (last.op = "edit_phone" /\ ~TenAsciiDigits(last.args[2]))
        => (last.exc # "" /\ PostPhones = PrePhones)

\* The day number of the anniversary of birthday b in the year of `today`.
Anniversary(b, today) == Ordinal(today.year, b.month, b.day)

\* The names, in the dict's order from entry i on, whose Record has a
\* birthday with today <= anniversary < today + 7 days, as calendar dates.
RECURSIVE ExpectedUpcoming(_, _, _, _)
ExpectedUpcoming(d, h, today, i) ==
    IF i > Len(d) THEN <<>>
    ELSE
      LET rec == h[d[i].rec]
          t == Ordinal(today.year, today.month, today.day)
      IN  IF /\ rec.birthday # <<>>
             /\ t <= Anniversary(rec.birthday[1], today)
             /\ Anniversary(rec.birthday[1], today) < t + 7
          THEN <<rec.name>> \o ExpectedUpcoming(d, h, today, i + 1)
          ELSE ExpectedUpcoming(d, h, today, i + 1)

\* Every birthday in the book has an anniversary in the year of `today`.
AnniversariesExist(d, h, today) ==
    \A i \in 1..Len(d) :
        h[d[i].rec].birthday # <<>>
            => ValidDate(today.year, h[d[i].rec].birthday[1].month,
                         h[d[i].rec].birthday[1].day)

\* C3: get_upcoming_birthdays returns, in the book's insertion order, exactly
\* the names of the Records whose anniversary D in the current year has
\* today <= D < today + 7 days as calendar dates, at every time of day.
C3_UpcomingIsTheSevenDayWindow ==
    (/\ last.op = "get_upcoming_birthdays"
     /\ AnniversariesExist(data, heap, last.args[1]))
        => (/\ last.exc = ""
            /\ last.ret = ExpectedUpcoming(data, heap, last.args[1], 1))

\* C4: edit_phone(old, new) with a valid `new`: when `old` occurs, its first
\* occurrence becomes `new`, True is returned and every other position, the
\* length and the order stay; when it does not occur, False is returned and
\* the list stays.
C4_EditReplacesFirstOccurrence ==
    (last.op = "edit_phone" /\ TenAsciiDigits(last.args[2])) =>
        LET old == last.args[1]
            new == last.args[2]
        IN  /\ last.exc = ""
            /\ Occurrences(PrePhones, old) # {} =>
                 /\ last.ret = TRUE
                 /\ Len(PostPhones) = Len(PrePhones)
                 /\ \A i \in 1..Len(PrePhones) :
                      PostPhones[i] =
                        IF /\ i \in Occurrences(PrePhones, old)
                           /\ \A j \in Occurrences(PrePhones, old) : i <= j
                        THEN new ELSE PrePhones[i]
            /\ Occurrences(PrePhones, old) = {} =>
                 /\ last.ret = FALSE
                 /\ PostPhones = PrePhones

\* An edit_phone that found `old` twice and rewrote it to another number.
C4_Witness ==
    /\ last.op = "edit_phone"
    /\ TenAsciiDigits(last.args[2])
    /\ last.args[1] # last.args[2]
    /\ last.ret = TRUE
    /\ Cardinality(Occurrences(PrePhones, last.args[1])) >= 2
    /\ Occurrences(PostPhones, last.args[1]) # {}

\* C5: remove_phone(number): when `number` occurs, exactly its first
\* occurrence is taken out, True is returned and the rest keeps its order;
\* when it does not occur, False is returned, nothing is raised and the list
\* stays.
C5_RemoveTakesFirstOccurrence ==
    last.op = "remove_phone" =>
        LET hits == Occurrences(PrePhones, last.args[1])
        IN  /\ last.exc = ""
            /\ hits # {} =>
                 /\ last.ret = TRUE
                 /\ Len(PostPhones) = Len(PrePhones) - 1
                 /\ \A i \in 1..Len(PostPhones) :
                      PostPhones[i] =
                        IF \A j \in hits : i < j THEN PrePhones[i] ELSE PrePhones[i + 1]
            /\ hits = {} =>
                 /\ last.ret = FALSE
                 /\ PostPhones = PrePhones

\* A remove_phone of a number held first and last, another one between them.
C5_Witness ==
    /\ last.op = "remove_phone"
    /\ last.ret = TRUE
    /\ Len(PrePhones) = 3
    /\ PrePhones[1] = last.args[1]
    /\ PrePhones[2] # last.args[1]
    /\ PrePhones[3] = last.args[1]

\* C6: add_phone(s) succeeds exactly when s is 10 ASCII decimal digits; then
\* s is appended and find_phone(s) finds it; otherwise ValueError is raised
\* and the list stays.
C6_AddPhoneIffTenAsciiDigits ==
    last.op = "add_phone" =>
        LET s == last.args[1]
        IN  /\ (last.exc = "") <=> TenAsciiDigits(s)
            /\ last.exc = "" =>
                 /\ PostPhones = Append(PrePhones, s)
                 /\ find_phone(heap, last.rec, s).ret.value = <<s>>
            /\ last.exc # "" => PostPhones = PrePhones

\* C7: each key of the book is the name of the Record stored under it, that
\* name is not empty, and no two entries have the same key.
C7_KeysAreNames ==
    \A i \in 1..Len(data) :
        /\ data[i].rec \in 1..Len(heap)
        /\ heap[data[i].rec].name = data[i].key
        /\ data[i].key # ""
        /\ \A j \in 1..Len(data) : data[j].key = data[i].key => j = i

\* Two entries, after add_record replaced the Record under a key.
C7_Witness ==
    /\ last.op = "add_record"
    /\ Len(data) = 2
    /\ heap[last.rec].name \in Keys(last.pre_data)
    /\ find(last.pre_data, heap[last.rec].name) # last.rec

\* C8: after add_record(r), find(r.name) is r itself; a Record that was under
\* that name is replaced, r's phones and birthday staying as they were; the
\* entries under other names stay; and find of a name that is no key
\* (differing in case only, too) is None.
C8_AddRecordReplaces ==
    /\ last.op = "add_record" =>
         LET r == last.rec
             k == heap[r].name
         IN  /\ find(data, k) = r
             /\ heap[r] = last.pre_heap[r]
             /\ Cardinality({i \in 1..Len(data) : data[i].key = k}) = 1
             /\ Keys(data) = Keys(last.pre_data) \cup {k}
             /\ \A i \in 1..Len(last.pre_data) :
                  last.pre_data[i].key # k =>
                    /\ \E j \in 1..Len(data) : data[j] = last.pre_data[i]
                    /\ heap[last.pre_data[i].rec] = last.pre_heap[last.pre_data[i].rec]
    /\ last.op = "find" =>
         /\ last.args[1] \notin Keys(data) => last.ret = 0
         /\ last.args[1] \in Keys(data) =>
              \E i \in 1..Len(data) : data[i].key = last.args[1] /\ data[i].rec = last.ret

\* add_record of a Record without phones over one with a phone, another
\* name's entry being in the book.
C8_Witness ==
    /\ last.op = "add_record"
    /\ Len(data) = 2
    /\ heap[last.rec].phones = <<>>
    /\ \E i \in 1..Len(last.pre_data) :
         /\ last.pre_data[i].key = heap[last.rec].name
         /\ last.pre_data[i].rec # last.rec
         /\ last.pre_heap[last.pre_data[i].rec].phones # <<>>

\* The entries of a dict without the one under `name`, in their order.
Without(d, name) ==
    LET Other(e) == e.key # name
    IN  SelectSeq(d, Other)

\* C9: delete(name) of a name that is no key returns False and leaves the
\* book; of a key it returns True, find(name) is then None and every other
\* entry stays; a second delete(name) right after returns False.
C9_DeleteRemovesOneEntry ==
    last.op = "delete" =>
        LET name == last.args[1]
        IN  /\ name \notin Keys(last.pre_data) =>
                 /\ last.ret = FALSE
                 /\ data = last.pre_data
                 /\ \A i \in 1..Len(data) :
                      heap[data[i].rec] = last.pre_heap[data[i].rec]
            /\ name \in Keys(last.pre_data) =>
                 /\ last.ret = TRUE
                 /\ find(data, name) = 0
                 /\ data = Without(last.pre_data, name)
                 /\ \A i \in 1..Len(data) :
                      heap[data[i].rec] = last.pre_heap[data[i].rec]
            /\ delete(data, name).ret = FALSE

\* A delete that took one of two entries out.
C9_Witness ==
    /\ last.op = "delete"
    /\ last.ret = TRUE
    /\ Len(last.pre_data) = 2
    /\ Len(data) = 1
    /\ last.args[1] = last.pre_data[2].key

\* The book as it was before the last call: the same entries, each Record
\* with the contents it had.
BookAsBefore ==
    /\ data = last.pre_data
    /\ \A i \in 1..Len(data) : heap[data[i].rec] = last.pre_heap[data[i].rec]

\* C10: the command `add` with a phone that is not 10 digits returns the
\* error text and leaves the book as it was (no contact without phones is
\* made); with a valid phone an existing contact gets it appended ("Contact
\* updated.") and a missing one is made with that phone alone ("Contact
\* added.").
C10_AddCommandIsAtomic ==
    (last.op = "add_contact" /\ Len(last.args) = 2) =>
        LET name == last.args[1]
            phone == last.args[2]
            was == find(last.pre_data, name)
            now == find(data, name)
        IN  IF ~TenAsciiDigits(phone)
            THEN /\ last.ret = Msg("Phone number must be 10 digits")
                 /\ BookAsBefore
            ELSE IF was # 0
            THEN /\ last.ret = Msg("Contact updated.")
                 /\ now = was
                 /\ heap[now].phones = Append(last.pre_heap[was].phones, phone)
            ELSE /\ last.ret = Msg("Contact added.")
                 /\ now # 0
                 /\ heap[now].phones = <<phone>>

====
